---- MODULE Spec2Model ----
(***************************************************************************)
(* Match finder of the allkinds chat bot: the candidate query, the         *)
(* per-candidate cohesion scoring, the threshold filter and the ranking of *)
(* find_matches (src/src/db/repositories/match_repo.py), the block list    *)
(* (blocked_user_repo.py), the three-way answer classification of          *)
(* ai_match_analysis (src/src/core/openai_service.py), and the answer and  *)
(* question stores behind them (answer.py, question.py).                   *)
(*                                                                         *)
(* calculate_cohesion_scores is imported by find_matches from              *)
(* src.bot.utils.matching, which is not part of the source tree; it is     *)
(* modelled from section 4.1 of the specification.                         *)
(***************************************************************************)
EXTENDS Integers, Sequences, FiniteSets, TLC

\* ---------------------------------------------------------------- bounds
NumUsers == 3
NumQuestions == 4
NumGroups == 2
AnalysisQuestions == 2
MaxAnswerRows == 2

Users == 1..NumUsers
Questions == 1..NumQuestions
Groups == 1..NumGroups

\* Answer.value: strong no, no, yes, strong yes
AnswerValues == {-2, -1, 1, 2}

\* find_matches: "if common_questions >= 3"
MinSharedQuestions == 3

\* weights of the cohesion score (section 4.1, step 3 and 4)
FullWeight == 4
PartialWeight == 2
DivergentWeight == 1

VARIABLES
    answers,        \* answers[u]: question id -> value, the Answer rows of u
                    \* as the {a.question_id: a} maps of the matching code see them
    answer_rows,    \* the answers table: the Answer rows in the order of their ids
    saved,          \* saved[<<u, q>>]: the data of the last completed save_answer
    q_active,       \* q_active[q]: Question.is_active
    is_active,      \* is_active[u]: User.is_active, committed
    member,         \* member[u]: groups u has a GroupMember row in
    blocked,        \* BlockedUser rows <<user_id, blocked_user_id>>
    user_id,        \* the user this session acts for
    session_active, \* session.is_active of the caller's session
    pending,        \* users whose row has an uncommitted is_active = False
    call,           \* the last find_matches call and what it returned
    prev,           \* the call before it, when find_matches is repeated
    a1_map,         \* ai_match_analysis: answers of user1 by question id
    a2_map,         \* ai_match_analysis: answers of user2 by question id
    analysis,       \* ai_match_analysis: the buckets built by the loop
    question_categories, \* compute_cohesion: the category mapping passed in
    cohesion,       \* compute_cohesion: what it returned for a1_map and a2_map
    q_group,        \* q_group[q]: Question.group_id
    chat_sessions,  \* the AnonymousChatSession rows in the order of their ids
    chats,          \* the Chat rows in the order of their ids
    chat_messages,  \* the ChatMessage rows in the order of their ids
    points,         \* points[u]: User.points, committed
    user_states,    \* the UserState rows in the order of their ids
    fsm,            \* fsm[tg]: FSM state and state data of Telegram account tg
    sent,           \* the messages the bot has sent or edited
    now,            \* datetime.now(), in ticks
    tasks,          \* tasks[t]: position and locals of a call running concurrently
    retry,          \* the with_retry wrapper's loop: attempt, invocations, outcome
    ret             \* the last completed repository or handler call and its result

dbVars == <<answers, answer_rows, saved, q_active, is_active, member, blocked>>
sessVars == <<user_id, session_active, pending>>
callVars == <<call, prev>>
analysisVars == <<a1_map, a2_map, analysis, question_categories, cohesion>>
storeVars == <<q_group, chat_sessions, chats, chat_messages, points, user_states>>
botVars == <<fsm, sent, now>>
runVars == <<tasks, retry, ret>>
extVars == <<storeVars, botVars, runVars>>
coreVars == <<dbVars, sessVars, callVars, analysisVars>>
vars == <<answers, answer_rows, saved, q_active, is_active, member, blocked, user_id,
          session_active, pending, call, prev, a1_map, a2_map, analysis,
          question_categories, cohesion, q_group, chat_sessions, chats,
          chat_messages, points, user_states, fsm, sent, now, tasks, retry, ret>>

\* ------------------------------------------------------------- helpers
Abs(x) == IF x < 0 THEN -x ELSE x

Range(s) == {s[i] : i \in 1..Len(s)}

\* all orders in which a SELECT without ORDER BY can return the rows S
Orderings(S) ==
    {s \in [1..Cardinality(S) -> S] : \A i, j \in 1..Cardinality(S) : i # j => s[i] # s[j]}

\* position of candidate c in the enumeration order
PosIn(s, c) == CHOOSE i \in 1..Len(s) : s[i] = c

\* ------------------------------------------- classification of a pair
\* faulty variant: "differ by at most 2" instead of "at most 1"
ClassifyWide(va, vb) ==
    IF Abs(va - vb) <= 2 THEN "agreement"
    ELSE IF va * vb < 0 /\ Abs(va) = Abs(vb) THEN "complementary"
    ELSE "divergent"

\* faulty variant: no complementary class, opposite answers count as divergent
ClassifyNoComplementary(va, vb) ==
    IF Abs(va - vb) <= 1 THEN "agreement" ELSE "divergent"

\* ai_match_analysis: if abs(a1.value - a2.value) <= 1 / elif opposite / else
Classify(va, vb) ==
    IF Abs(va - vb) <= 1 THEN "agreement"
    ELSE IF va * vb < 0 /\ Abs(va) = Abs(vb) THEN "complementary"
    ELSE "divergent"

\* ------------------------------------------------- cohesion calculator
\* Question.group_id of question q
question_group(q) == q_group[q]

\* AnswerRepository.get_user_answers_for_group: the answers of u to the
\* questions of group g; "except Exception: return []" when the store fails
get_user_answers_for_group(u, g, store_ok) ==
    IF store_ok
    THEN [q \in {x \in DOMAIN answers[u] : question_group(x) = g} |-> answers[u][q]]
    ELSE <<>>

\* Question.category is nullable: the value of a question without a category
NoCategory == "none"

\* Question.category of the questions in the store
question_category(q) == IF q % 2 = 1 THEN "values" ELSE NoCategory

\* the category mapping built from the questions of group g
group_categories(g) ==
    [q \in {x \in Questions : question_group(x) = g} |-> question_category(q)]

\* faulty variant: near-agreement counts only when the first user is the stronger
ContributionOneSided(va, vb) ==
    LET c == Classify(va, vb) IN
    IF c = "agreement"
    THEN (IF va = vb THEN FullWeight ELSE IF Abs(va) > Abs(vb) THEN PartialWeight ELSE 0)
    ELSE IF c = "complementary" THEN 0
    ELSE 0 - DivergentWeight

\* faulty variant: a complementary pair is penalised like a divergent one
ContributionPenalised(va, vb) ==
    LET c == Classify(va, vb) IN
    IF c = "agreement" THEN (IF va = vb THEN FullWeight ELSE PartialWeight)
    ELSE 0 - DivergentWeight

\* contribution of one shared question to the score
Contribution(va, vb) ==
    LET c == Classify(va, vb) IN
    IF c = "agreement" THEN (IF va = vb THEN FullWeight ELSE PartialWeight)
    ELSE IF c = "complementary" THEN 0
    ELSE 0 - DivergentWeight

RECURSIVE SumContributions(_, _, _)
SumContributions(a, b, S) ==
    IF S = {} THEN 0
    ELSE LET q == CHOOSE x \in S : TRUE
         IN Contribution(a[q], b[q]) + SumContributions(a, b, S \ {q})

\* the bucket of question q: its category, "uncategorized" when q is not in
\* the mapping or has no category
category_of(cats, q) ==
    IF q \in DOMAIN cats /\ cats[q] # NoCategory THEN cats[q] ELSE "uncategorized"

\* the result for two answer sets without a shared question
ZeroCohesion ==
    [num |-> 0, den |-> 1, common |-> 0, category_scores |-> <<>>, category_counts |-> <<>>]

\* the result for n > 0 shared questions, the sum divided by den
CohesionOver(a, b, cats, shared, den) ==
    LET keys == {category_of(cats, q) : q \in shared}
        qs(c) == {q \in shared : category_of(cats, q) = c}
    IN [num |-> SumContributions(a, b, shared),
        den |-> den,
        common |-> Cardinality(shared),
        category_scores |->
            [c \in keys |-> [num |-> SumContributions(a, b, qs(c)),
                             den |-> FullWeight * Cardinality(qs(c))]],
        category_counts |-> [c \in keys |-> Cardinality(qs(c))]]

\* faulty variant: no early return for an empty shared set, the sum is divided by 0
compute_cohesion_unguarded(a, b, cats) ==
    LET shared == DOMAIN a \cap DOMAIN b
    IN CohesionOver(a, b, cats, shared, FullWeight * Cardinality(shared))

\* faulty variant: the sum of the contributions is not divided by shared_count
compute_cohesion_unnormalised(a, b, cats) ==
    LET shared == DOMAIN a \cap DOMAIN b
    IN IF shared = {} THEN ZeroCohesion
       ELSE CohesionOver(a, b, cats, shared, FullWeight)

\* faulty variant: a question missing from the mapping is left out of the breakdown
compute_cohesion_mapped_only(a, b, cats) ==
    LET shared == DOMAIN a \cap DOMAIN b
        r == CohesionOver(a, b, cats, shared \cap DOMAIN cats,
                          FullWeight * Cardinality(shared))
    IN IF shared = {} THEN ZeroCohesion
       ELSE [r EXCEPT !.num = SumContributions(a, b, shared),
                      !.common = Cardinality(shared)]

\* compute_cohesion(answers_a, answers_b, question_categories): the score is
\* num / den with den = FullWeight * shared_count
compute_cohesion(a, b, cats) ==
    LET shared == DOMAIN a \cap DOMAIN b
    IN IF shared = {} THEN ZeroCohesion
       ELSE CohesionOver(a, b, cats, shared, FullWeight * Cardinality(shared))

\* calculate_cohesion_scores(session, user_id, potential_match_id, group_id)
calculate_cohesion_scores(u, c, g, fetch_ok) ==
    compute_cohesion(get_user_answers_for_group(u, g, fetch_ok),
                     get_user_answers_for_group(c, g, TRUE),
                     group_categories(g))

\* the closed range of the score: all shared questions divergent, all equal
ScoreMin == [num |-> 0 - DivergentWeight, den |-> FullWeight]
ScoreMax == [num |-> FullWeight, den |-> FullWeight]

\* comparison of two scores num/den with positive denominators
ScoreGE(x, y) == x.num * y.den >= y.num * x.den
ScoreEQ(x, y) == x.num * y.den = y.num * x.den
ScoreGT(x, y) == x.num * y.den > y.num * x.den

\* ------------------------------------------------------- find_matches
\* faulty variant: the candidate query without the User.is_active condition
potential_matches_any_user(u, g, active) ==
    {c \in Users : g \in member[c] /\ c # u}

\* select(User.id).join(GroupMember).where(GroupMember.group_id == group_id,
\*   GroupMember.user_id != user_id, User.is_active == True)
potential_matches_of(u, g, active) ==
    {c \in Users : g \in member[c] /\ c # u /\ active[c]}

\* faulty variant: any candidate with a shared question is included
meets_threshold_any(common) == common >= 1

\* "if common_questions >= 3"
meets_threshold(common) == common >= MinSharedQuestions

\* the tuple appended to match_results (the category mappings are left out)
MatchTuple(c, r) == [id |-> c, num |-> r.num, den |-> r.den, common |-> r.common]

\* the for loop over potential_matches: a candidate whose scoring raised is in
\* skip and is passed over ("except Exception ... continue")
RECURSIVE ScoreLoop(_, _, _, _, _)
ScoreLoop(order, skip, u, g, fetch_ok) ==
    IF order = <<>> THEN <<>>
    ELSE LET c == Head(order)
             r == calculate_cohesion_scores(u, c, g, fetch_ok)
             rest == ScoreLoop(Tail(order), skip, u, g, fetch_ok)
         IN IF c \in skip THEN rest
            ELSE IF meets_threshold(r.common) THEN <<MatchTuple(c, r)>> \o rest
            ELSE rest

\* faulty variant: the first failing candidate ends the search with no result
loop_results_abort(order, failed, u, g, fetch_ok) ==
    IF failed \cap Range(order) # {} THEN <<>>
    ELSE ScoreLoop(order, {}, u, g, fetch_ok)

\* match_results after the loop, for the candidates in `failed` raising
loop_results(order, failed, u, g, fetch_ok) ==
    ScoreLoop(order, failed, u, g, fetch_ok)

\* pairs of positions of s
Pairs(s) == (1..Len(s)) \X (1..Len(s))

\* the list s reordered: s[j] goes in front of s[i] when <<j, i>> is in prec
SortBy(s, prec) ==
    [p \in 1..Len(s) |->
        s[CHOOSE i \in 1..Len(s) :
            Cardinality({j \in 1..Len(s) : <<j, i>> \in prec}) = p - 1]]

\* faulty variant: reverse=True forgotten, lowest score first
sort_results_ascending(s) ==
    SortBy(s, {x \in Pairs(s) :
        \/ ScoreGT(s[x[2]], s[x[1]])
        \/ ScoreEQ(s[x[1]], s[x[2]]) /\ x[1] < x[2]})

\* faulty variant: equal scores ordered by the higher shared count
sort_results_by_shared(s) ==
    SortBy(s, {x \in Pairs(s) :
        \/ ScoreGT(s[x[1]], s[x[2]])
        \/ /\ ScoreEQ(s[x[1]], s[x[2]])
           /\ \/ s[x[1]].common > s[x[2]].common
              \/ s[x[1]].common = s[x[2]].common /\ x[1] < x[2]})

\* match_results.sort(key=lambda x: x[1], reverse=True): by score only, and
\* stable, so entries of equal score keep the order the loop appended them in
sort_results(s) ==
    SortBy(s, {x \in Pairs(s) :
        \/ ScoreGT(s[x[1]], s[x[2]])
        \/ ScoreEQ(s[x[1]], s[x[2]]) /\ x[1] < x[2]})

\* faulty variant: the commit is lost, the pending rows stay as they were
session_commit_lost(active, pend) == active

\* session.commit(): the pending row updates become the committed rows
session_commit(active, pend) ==
    [u \in Users |-> IF u \in pend THEN FALSE ELSE active[u]]

NoCall ==
    [made |-> FALSE, user |-> 0, group |-> 0, outcome |-> "none", result |-> <<>>,
     order |-> <<>>, failed |-> {}, store_ok |-> TRUE, fetch_ok |-> TRUE,
     committed |-> FALSE, active_before |-> <<>>, pending_before |-> {}]

\* One call find_matches(session, user_id, g) with g in GS, under the with_retry
\* wrapper. The environment decides: kw (the session is passed by keyword),
\* fresh_ok (get_fresh_session succeeds), commit_ok, query_ok, the order in
\* which the candidate rows come back, the candidates whose scoring raises,
\* and fetch_ok (the target user's answers can be fetched).
DoFindMatches(GS) ==
    \E g \in GS,
       kw \in (IF session_active THEN {FALSE} ELSE BOOLEAN),
       fresh_ok \in (IF session_active THEN {TRUE} ELSE BOOLEAN),
       commit_ok \in (IF session_active /\ pending # {} THEN BOOLEAN ELSE {TRUE}),
       query_ok \in BOOLEAN :
        LET \* with_retry: ensure_active_session(kwargs['session']) raises
            raised == kw /\ ~session_active /\ ~fresh_ok
            \* "if session.is_active: await session.commit()"
            committed == session_active /\ commit_ok /\ pending # {}
            active_now == IF committed THEN session_commit(is_active, pending)
                          ELSE is_active
            \* ensure_active_session and session.execute(query) both succeed
            store_ok == ~raised /\ (session_active \/ fresh_ok) /\ query_ok
            cands == IF store_ok
                     THEN potential_matches_of(user_id, g, active_now)
                     ELSE {}
        IN \E order \in Orderings(cands), failed \in SUBSET cands :
           \* with the target user's answers missing nothing is ranked,
           \* whichever candidates raise as well
           \E fetch_ok \in (IF cands # {} /\ failed = {} THEN BOOLEAN ELSE {TRUE}) :
            /\ is_active' = active_now
            /\ pending' = IF session_active THEN {} ELSE pending
            /\ call' = [made |-> TRUE, user |-> user_id, group |-> g,
                        outcome |-> IF raised THEN "raised" ELSE "returned",
                        result |-> sort_results(
                            loop_results(order, failed, user_id, g, fetch_ok)),
                        order |-> order, failed |-> failed,
                        store_ok |-> store_ok, fetch_ok |-> fetch_ok,
                        committed |-> committed, active_before |-> is_active,
                        pending_before |-> pending]
            /\ UNCHANGED <<answers, answer_rows, saved, q_active, member, blocked>>
            /\ UNCHANGED <<user_id, session_active>>
            /\ UNCHANGED analysisVars
            /\ UNCHANGED extVars

\* find_matches(session, user_id, group_id), called by the bot handler
FindMatches ==
    /\ ~call.made
    /\ DoFindMatches(Groups)
    /\ prev' = prev

\* the same call once more, on the data the first call left
FindMatchesAgain ==
    /\ call.made
    /\ ~prev.made
    /\ DoFindMatches({call.group})
    /\ prev' = call

\* the caller has shown the ranking; the result is transient and is dropped
ConsumeResult ==
    /\ call.made
    /\ call' = NoCall
    /\ prev' = NoCall
    /\ UNCHANGED <<dbVars, sessVars, analysisVars>>
    /\ UNCHANGED extVars

\* ------------------------------------------------------------ block list
\* BlockedUserRepository.block_user: nothing is added when already blocked
block_user(u, v) == blocked \cup {<<u, v>>}

\* BlockedUserRepository.unblock_user
unblock_user(u, v) == blocked \ {<<u, v>>}

\* on_confirm_block: blocked_user_repo.block_user(session, user.id, partner_id)
BlockUser ==
    \E v \in Users \ {user_id} :
        /\ ~call.made
        /\ blocked' = block_user(user_id, v)
        /\ UNCHANGED <<answers, answer_rows, saved, q_active, is_active, member>>
        /\ UNCHANGED <<sessVars, callVars, analysisVars>>
        /\ UNCHANGED extVars

\* blocked_user_repo.unblock_user(session, user_id, blocked_user_id)
UnblockUser ==
    \E v \in Users \ {user_id} :
        /\ ~call.made
        /\ blocked' = unblock_user(user_id, v)
        /\ UNCHANGED <<answers, answer_rows, saved, q_active, is_active, member>>
        /\ UNCHANGED <<sessVars, callVars, analysisVars>>
        /\ UNCHANGED extVars

\* ---------------------------------------------------------- answer store
\* AnswerType of a value; a skipped question is saved with value 0
answer_type_of(v) ==
    IF v = -2 THEN "strong_no" ELSE IF v = -1 THEN "no"
    ELSE IF v = 1 THEN "yes" ELSE IF v = 2 THEN "strong_yes" ELSE "skip"

\* the (answer_type, value) arguments save_answer is called with
AnswerArguments == {<<answer_type_of(v), v>> : v \in AnswerValues \cup {0}}

\* the questions answers are saved for
AnsweredQuestions == 1..AnalysisQuestions

\* the table holding one row for each entry of the maps ans, in id order
RowsOf(ans) ==
    LET pair(k) == <<((k - 1) \div NumQuestions) + 1, ((k - 1) % NumQuestions) + 1>>
        all == [k \in 1..(NumUsers * NumQuestions) |-> pair(k)]
        held == SelectSeq(all, LAMBDA p : p[2] \in DOMAIN ans[p[1]])
    IN [i \in 1..Len(held) |->
            [user_id |-> held[i][1], question_id |-> held[i][2],
             answer_type |-> answer_type_of(ans[held[i][1]][held[i][2]]),
             value |-> ans[held[i][1]][held[i][2]]]]

\* ids of the rows of user u for question q
RowIds(rows, u, q) ==
    {i \in 1..Len(rows) : rows[i].user_id = u /\ rows[i].question_id = q}

\* {a.question_id: a for a in answers}, the rows listed newest first: of
\* several rows for one question the oldest is the one left in the map
AnswersView(rows) ==
    [u \in Users |->
        [q \in {rows[i].question_id : i \in {j \in 1..Len(rows) : rows[j].user_id = u}} |->
            rows[CHOOSE i \in RowIds(rows, u, q) :
                    \A j \in RowIds(rows, u, q) : i <= j].value]]

\* get_answer: scalar_one_or_none() of the rows of (u, q); 0 stands for None,
\* returned as well when the query fails or finds more than one row
\* ("except Exception ... return None")
get_answer(rows, u, q, lookup_ok) ==
    IF lookup_ok /\ Cardinality(RowIds(rows, u, q)) = 1
    THEN CHOOSE i \in RowIds(rows, u, q) : TRUE
    ELSE 0

\* BaseRepository.create(session, data): the table has no uniqueness
\* constraint on (user_id, question_id), the insert adds a row
create_answer(rows, data) == Append(rows, data)

\* BaseRepository.update(session, existing_answer.id, data)
update_answer(rows, id, data) == [rows EXCEPT ![id] = data]

\* save_answer(session, u, q, answer_type, value): look the row up, update it
\* when found, insert a new one otherwise; a failed write raises and leaves
\* the table as it was
SaveAnswer ==
    \E u \in Users, q \in AnsweredQuestions, arg \in AnswerArguments,
       lookup_ok \in BOOLEAN, write_ok \in BOOLEAN :
        LET data == [user_id |-> u, question_id |-> q,
                     answer_type |-> arg[1], value |-> arg[2]]
            existing_answer == get_answer(answer_rows, u, q, lookup_ok)
            rows_after == IF existing_answer # 0
                          THEN update_answer(answer_rows, existing_answer, data)
                          ELSE create_answer(answer_rows, data)
        IN /\ ~analysis.done
           /\ Len(rows_after) <= MaxAnswerRows
           /\ answer_rows' = IF write_ok THEN rows_after ELSE answer_rows
           /\ answers' = AnswersView(answer_rows')
           /\ saved' = IF write_ok
                       THEN [p \in DOMAIN saved \cup {<<u, q>>} |->
                                IF p = <<u, q>> THEN data ELSE saved[p]]
                       ELSE saved
           /\ UNCHANGED <<q_active, is_active, member, blocked>>
           /\ UNCHANGED <<sessVars, callVars, analysisVars>>
           /\ UNCHANGED extVars

\* ------------------------------------------------------ question store
\* mark_inactive(session, question_id): is_active = False, committed by update
MarkInactive ==
    \E q \in AnsweredQuestions :
        /\ ~analysis.done
        /\ q_active' = [q_active EXCEPT ![q] = FALSE]
        /\ UNCHANGED <<answers, answer_rows, saved, is_active, member, blocked>>
        /\ UNCHANGED <<sessVars, callVars, analysisVars>>
        /\ UNCHANGED extVars

\* ------------------------------------------------------ initial states
\* the user answered the first k questions, all with v
Uniform(k, v) == [q \in 1..k |-> v]

\* the answer sets the users of the model start from
AnswerProfiles ==
    { Uniform(0, 2),
      Uniform(MinSharedQuestions - 1, 2),
      Uniform(MinSharedQuestions, 2),
      Uniform(NumQuestions, 2),
      [q \in Questions |-> IF q % 2 = 1 THEN 1 ELSE -2],
      [q \in Questions |-> IF q % 2 = 1 THEN -1 ELSE 2] }

NoAnalysis ==
    [done |-> FALSE, outcome |-> "none", env_ok |-> TRUE,
     shared |-> {}, complementary |-> {}, uniqueA |-> {}, uniqueB |-> {}]

NoCohesion == [done |-> FALSE, result |-> ZeroCohesion]

\* nothing of the chat bot, the points or the critical states has happened yet:
\* one group of questions, empty tables, no call running
NoRet == [op |-> "none"]

NoRetry ==
    [max_attempts |-> 0, kw |-> FALSE, session_ok |-> TRUE, attempt |-> 0,
     invoked |-> 0, last_exception |-> 0, status |-> "idle", error |-> "none",
     result |-> 0]

\* every question belongs to the first group
OneGroup == q_group = [q \in Questions |-> 1]

\* the Telegram accounts writing to the bot: User.telegram_user_id of the
\* users, and one account that never registered
Unregistered == NumUsers + 1
TelegramUsers == Users \cup {Unregistered}

\* FSM storage after state.clear(): no state, no data
NoFsm == [state |-> "none", partner_id |-> 0, chat_id |-> 0]

\* no chat session, chat or message exists, nobody is in a chat, nothing sent
NoChats ==
    /\ chat_sessions = <<>>
    /\ chats = <<>>
    /\ chat_messages = <<>>
    /\ fsm = [tg \in TelegramUsers |-> NoFsm]
    /\ sent = {}

\* User.points at its default, no critical state saved, the clock at its start
NoAccounts ==
    /\ points = [u \in Users |-> 0]
    /\ user_states = <<>>
    /\ now = 0

\* no call is running and none has completed
NoRuns ==
    /\ tasks = <<>>
    /\ retry = NoRetry
    /\ ret = NoRet

InitExt == OneGroup /\ NoChats /\ NoAccounts /\ NoRuns

InitIdleCore ==
    /\ blocked = {}
    /\ user_id \in Users
    /\ call = NoCall
    /\ prev = NoCall
    /\ a1_map = <<>>
    /\ a2_map = <<>>
    /\ analysis = NoAnalysis
    /\ saved = <<>>
    /\ q_active = [q \in Questions |-> TRUE]
    /\ question_categories = <<>>
    /\ cohesion = NoCohesion

InitIdle == InitExt /\ InitIdleCore

\* ranking: every answer profile, all users active members of every group
Init ==
    /\ InitIdle
    /\ answers \in [Users -> AnswerProfiles]
    /\ answer_rows = RowsOf(answers)
    /\ is_active = [u \in Users |-> TRUE]
    /\ member = [u \in Users |-> Groups]
    /\ session_active = TRUE
    /\ pending = {}

Next == FindMatches \/ ConsumeResult

Spec == Init /\ [][Next]_vars


\* repeated call: candidates that tie, and candidates below the threshold
InitTwice ==
    /\ InitIdle
    /\ answers \in [Users -> {Uniform(MinSharedQuestions - 1, 2),
                              Uniform(MinSharedQuestions, 2),
                              Uniform(NumQuestions, 2)}]
    /\ answer_rows = RowsOf(answers)
    /\ is_active = [u \in Users |-> TRUE]
    /\ member = [u \in Users |-> Groups]
    /\ session_active = TRUE
    /\ pending = {}

NextTwice == FindMatches \/ FindMatchesAgain \/ ConsumeResult

SpecTwice == InitTwice /\ [][NextTwice]_vars

\* candidate scope: any activity flags and memberships, everybody has
\* answered the same questions, as many as a ranking takes
InitScope ==
    /\ InitIdle
    /\ answers = [u \in Users |-> Uniform(MinSharedQuestions, 2)]
    /\ answer_rows = RowsOf(answers)
    /\ is_active \in [Users -> BOOLEAN]
    /\ member \in [Users -> SUBSET Groups]
    /\ session_active = TRUE
    /\ pending = {}

NextScope == FindMatches \/ ConsumeResult

SpecScope == InitScope /\ [][NextScope]_vars

\* session state: the caller's session may hold an uncommitted row update
\* and may be inactive
InitSession ==
    /\ InitIdle
    /\ answers \in [Users -> {Uniform(MinSharedQuestions, 2), Uniform(NumQuestions, 2)}]
    /\ answer_rows = RowsOf(answers)
    /\ is_active = [u \in Users |-> TRUE]
    /\ member = [u \in Users |-> Groups]
    /\ session_active \in BOOLEAN
    /\ pending \in {{}} \cup {{u} : u \in Users}

NextSession == FindMatches \/ ConsumeResult

SpecSession == InitSession /\ [][NextSession]_vars

\* block list: the session's user blocks and unblocks partners, then searches
InitBlock ==
    /\ InitIdle
    /\ answers = [u \in Users |-> Uniform(NumQuestions, 2)]
    /\ answer_rows = RowsOf(answers)
    /\ is_active = [u \in Users |-> TRUE]
    /\ member = [u \in Users |-> Groups]
    /\ session_active = TRUE
    /\ pending = {}

NextBlock == BlockUser \/ UnblockUser \/ FindMatches \/ ConsumeResult

SpecBlock == InitBlock /\ [][NextBlock]_vars

\* ------------------------------------------------------------- claims
\* shared questions of u and c, counted on the stored answers
SharedCount(u, c) == Cardinality(DOMAIN answers[u] \cap DOMAIN answers[c])

ResultIds == {call.result[i].id : i \in 1..Len(call.result)}

\* C1: every tuple find_matches returns has a shared-question count of at
\* least the threshold of 3; a candidate with 0, 1 or 2 shared questions is
\* left out, and leaving it out is not an error: the call returns normally.
C1_ThresholdExclusion ==
    call.made =>
        /\ call.outcome = "returned"
        /\ \A i \in 1..Len(call.result) :
            /\ call.result[i].common >= 3
            /\ SharedCount(call.user, call.result[i].id) >= 3

\* a candidate with 1 or 2 shared questions was scored and another one is returned
C1_Witness ==
    /\ call.made
    /\ call.result # <<>>
    /\ \E c \in Range(call.order) \ call.failed :
        /\ SharedCount(call.user, c) \in {1, 2}
        /\ c \notin ResultIds

\* what scoring candidate c alone gives
ExpectedTuple(c) ==
    MatchTuple(c, calculate_cohesion_scores(call.user, c, call.group, call.fetch_ok))

\* C2: when scoring some candidates raises, only those are skipped: every
\* other candidate that meets the threshold is in the result with the tuple
\* its own scoring gives, and no failing candidate is in the result.
C2_PartialFailure ==
    call.made =>
        /\ \A c \in Range(call.order) \ call.failed :
            ExpectedTuple(c).common >= MinSharedQuestions =>
                \E i \in 1..Len(call.result) : call.result[i] = ExpectedTuple(c)
        /\ ResultIds \cap call.failed = {}

\* one candidate failed, another one is ranked
C2_Witness ==
    /\ call.made
    /\ call.failed # {}
    /\ call.result # <<>>

\* C3: the returned list is sorted by score, highest first.
C3_Descending ==
    call.made =>
        \A i \in 1..(Len(call.result) - 1) :
            ScoreGE(call.result[i], call.result[i + 1])

\* two entries of different score that the query returned lowest first
C3_Witness ==
    /\ call.made
    /\ Len(call.result) >= 2
    /\ ScoreGT(call.result[1], call.result[2])
    /\ PosIn(call.order, call.result[1].id) > PosIn(call.order, call.result[2].id)

\* C4 as stated: of two entries with equal scores, the one with the higher
\* shared-question count comes first.
C4_TieBreakByShared ==
    call.made =>
        \A i, j \in 1..Len(call.result) :
            (i < j /\ ScoreEQ(call.result[i], call.result[j])) =>
                call.result[i].common >= call.result[j].common

\* C4 amended: entries with equal scores keep the order in which the
\* candidate query returned them; the shared-question count is not consulted.
C4_TieKeepsQueryOrder ==
    call.made =>
        \A i, j \in 1..Len(call.result) :
            (i < j /\ ScoreEQ(call.result[i], call.result[j])) =>
                PosIn(call.order, call.result[i].id) < PosIn(call.order, call.result[j].id)

\* a tie in which the entry with fewer shared questions is ranked first
C4_Witness ==
    /\ call.made
    /\ Len(call.result) >= 2
    /\ ScoreEQ(call.result[1], call.result[2])
    /\ call.result[1].common < call.result[2].common

\* a call in which nothing failed
Clean(c) == c.made /\ c.store_ok /\ c.fetch_ok /\ c.failed = {}

\* C5: two calls with the same arguments on the same stored data return the
\* same ordered list.
C5_SameListTwice ==
    (Clean(prev) /\ Clean(call) /\ prev.user = call.user /\ prev.group = call.group)
        => call.result = prev.result

\* C6: when the store fails before any candidate is scored (the candidate
\* query, or the fetch of the target user's answers), find_matches raises
\* instead of returning a list.
C6_StoreFailureRaises ==
    (call.made /\ (~call.store_ok \/ ~call.fetch_ok)) => call.outcome = "raised"

\* C7 as stated: the committed rows after the call are the committed rows
\* before it, also when the session held uncommitted changes.
C7_NoWrites ==
    call.made => is_active = call.active_before

\* C7 amended: the only rows a find_matches call changes are the ones the
\* caller's session held uncommitted, which its session.commit() writes when
\* the session is active and the commit succeeds; it changes no other row and
\* adds none of its own.
C7_OnlyPendingCommitted ==
    [][(~call.made /\ call'.made) =>
        /\ answers' = answers
        /\ member' = member
        /\ blocked' = blocked
        /\ \A u \in Users :
            is_active'[u] # is_active[u] => (u \in pending /\ session_active)
        /\ call'.committed => \A u \in pending : ~is_active'[u]]_vars

\* a call that committed the caller's pending update
C7_Witness ==
    /\ call.made
    /\ call.committed
    /\ \E u \in call.pending_before : call.active_before[u] /\ ~is_active[u]

\* C8: the result never contains the searching user, an inactive user, or a
\* user who is not a member of the group searched.
C8_CandidateScope ==
    call.made =>
        \A i \in 1..Len(call.result) :
            LET c == call.result[i].id IN
            /\ c # call.user
            /\ is_active[c]
            /\ call.group \in member[c]

\* a ranking returned while another member of the group is inactive
C8_Witness ==
    /\ call.made
    /\ call.result # <<>>
    /\ \E c \in Users \ {call.user} : call.group \in member[c] /\ ~is_active[c]

\* C9: a user the searching user has blocked is never in the result.
C9_BlockedNotReturned ==
    call.made =>
        \A i \in 1..Len(call.result) :
            <<call.user, call.result[i].id>> \notin blocked


\* --------------------------------------------------- ai_match_analysis
\* answers by question id, for any set of answered questions
AnswerMaps(Q) == UNION {[D -> AnswerValues] : D \in SUBSET Q}

\* the loop over qids: the bucket each question is appended to
analysis_buckets(m1, m2) ==
    LET both == DOMAIN m1 \cap DOMAIN m2
        class(q) == Classify(m1[q], m2[q])
    IN [shared |-> {q \in both : class(q) = "agreement"},
        complementary |-> {q \in both : class(q) = "complementary"},
        uniqueA |-> (DOMAIN m1 \ DOMAIN m2) \cup
                    {q \in both : class(q) = "divergent" /\ Abs(m1[q]) > Abs(m2[q])},
        uniqueB |-> (DOMAIN m2 \ DOMAIN m1) \cup
                    {q \in both : class(q) = "divergent" /\ ~(Abs(m1[q]) > Abs(m2[q]))}]

\* qmap holds the questions get_questions_by_ids returns, the active ones
\* only; qmap[qid] raises KeyError for any other answered question
qmap_complete(m1, m2) == \A q \in DOMAIN m1 \cup DOMAIN m2 : q_active[q]

\* what ai_match_analysis leaves for the answer maps m1 and m2: the buckets
\* when it returns, nothing when it raises; env_ok: the question query and
\* the completion request succeed
analysis_of(m1, m2, env_ok) ==
    LET ok == env_ok /\ qmap_complete(m1, m2)
        b == analysis_buckets(m1, m2)
    IN [done |-> TRUE,
        outcome |-> IF ok THEN "returned" ELSE "raised",
        env_ok |-> env_ok,
        shared |-> IF ok THEN b.shared ELSE {},
        complementary |-> IF ok THEN b.complementary ELSE {},
        uniqueA |-> IF ok THEN b.uniqueA ELSE {},
        uniqueB |-> IF ok THEN b.uniqueB ELSE {}]

\* the classification loop of ai_match_analysis on the answer maps a1_map, a2_map
Analyse ==
    /\ ~analysis.done
    /\ analysis' = analysis_of(a1_map, a2_map, TRUE)
    /\ UNCHANGED <<dbVars, sessVars, callVars>>
    /\ UNCHANGED <<a1_map, a2_map, question_categories, cohesion>>
    /\ UNCHANGED extVars

\* ai_match_analysis(session, user1_id, user2_id, group_id): the answers of
\* both users are read from the store (an empty list when the read fails)
AiMatchAnalysis ==
    \E user2_id \in Users \ {user_id}, g \in Groups,
       fetch1_ok \in BOOLEAN, fetch2_ok \in BOOLEAN, env_ok \in BOOLEAN :
        /\ ~analysis.done
        /\ a1_map' = get_user_answers_for_group(user_id, g, fetch1_ok)
        /\ a2_map' = get_user_answers_for_group(user2_id, g, fetch2_ok)
        /\ analysis' = analysis_of(a1_map', a2_map', env_ok)
        /\ UNCHANGED <<dbVars, sessVars, callVars, question_categories, cohesion>>
        /\ UNCHANGED extVars

\* compute_cohesion applied to a1_map, a2_map and question_categories
ComputeCohesion ==
    /\ ~cohesion.done
    /\ cohesion' = [done |-> TRUE,
                    result |-> compute_cohesion(a1_map, a2_map, question_categories)]
    /\ UNCHANGED <<dbVars, sessVars, callVars>>
    /\ UNCHANGED <<a1_map, a2_map, analysis, question_categories>>
    /\ UNCHANGED extVars

InitClassify ==
    /\ InitExt
    /\ blocked = {}
    /\ user_id \in Users
    /\ call = NoCall
    /\ prev = NoCall
    /\ answers = [u \in Users |-> <<>>]
    /\ answer_rows = RowsOf(answers)
    /\ is_active = [u \in Users |-> TRUE]
    /\ member = [u \in Users |-> Groups]
    /\ session_active = TRUE
    /\ pending = {}
    /\ a1_map \in AnswerMaps(1..AnalysisQuestions)
    /\ a2_map \in AnswerMaps(1..AnalysisQuestions)
    /\ analysis = NoAnalysis
    /\ saved = <<>>
    /\ q_active = [q \in Questions |-> TRUE]
    /\ question_categories = <<>>
    /\ cohesion = NoCohesion

NextClassify == Analyse

SpecClassify == InitClassify /\ [][NextClassify]_vars

\* the bucket a question answered by both users ended in
BucketsOf(q) ==
    {b \in {"agreement", "complementary", "divergent"} :
        \/ b = "agreement" /\ q \in analysis.shared
        \/ b = "complementary" /\ q \in analysis.complementary
        \/ b = "divergent" /\ q \in analysis.uniqueA \cup analysis.uniqueB}

\* C10: a question both users answered is in exactly one class: agreement
\* iff the values differ by at most 1, complementary iff they have opposite
\* sign and equal magnitude, divergent otherwise; and the class does not
\* depend on which of the two users is named first.
C10_ThreeWay ==
    analysis.done =>
        \A q \in DOMAIN a1_map \cap DOMAIN a2_map :
            LET va == a1_map[q]
                vb == a2_map[q]
                agree == Abs(va - vb) <= 1
                compl == va * vb < 0 /\ Abs(va) = Abs(vb)
            IN /\ Cardinality(BucketsOf(q)) = 1
               /\ (q \in analysis.shared) <=> agree
               /\ (q \in analysis.complementary) <=> compl
               /\ (q \in analysis.uniqueA \cup analysis.uniqueB) <=> (~agree /\ ~compl)
               /\ Classify(va, vb) = Classify(vb, va)

\* an analysis of two questions: a complementary pair of mild answers next to a divergent pair
C10_Witness ==
    /\ analysis.done
    /\ \E q \in analysis.complementary : a1_map[q] = -1 /\ a2_map[q] = 1
    /\ \E q \in DOMAIN a1_map \cap DOMAIN a2_map :
        q \in analysis.uniqueA \cup analysis.uniqueB

\* ------------------------------------------------- the example scenario
\* the two answer sets of the example: A answered Q1..Q3, B answered Q1..Q4
ExampleA == (1 :> 2) @@ (2 :> -1) @@ (3 :> 1)
ExampleB == (1 :> 2) @@ (2 :> 1) @@ (3 :> -2) @@ (4 :> 2)

\* no answers stored, nothing called yet, the session of the first user
InitEmptyStore ==
    /\ InitExt
    /\ blocked = {}
    /\ user_id = 1
    /\ call = NoCall
    /\ prev = NoCall
    /\ analysis = NoAnalysis
    /\ cohesion = NoCohesion
    /\ saved = <<>>
    /\ q_active = [q \in Questions |-> TRUE]
    /\ answers = [u \in Users |-> <<>>]
    /\ answer_rows = RowsOf(answers)
    /\ is_active = [u \in Users |-> TRUE]
    /\ member = [u \in Users |-> Groups]
    /\ session_active = TRUE
    /\ pending = {}

\* every pair of answer sets over the questions of the example, with B's
\* answer to the question A skipped as in the example
InitExample ==
    /\ InitEmptyStore
    /\ a1_map \in [DOMAIN ExampleA -> AnswerValues]
    /\ a2_map \in {m \in [DOMAIN ExampleB -> AnswerValues] :
                        \A q \in DOMAIN ExampleB \ DOMAIN ExampleA : m[q] = ExampleB[q]}
    /\ question_categories = <<>>

NextExample == Analyse

SpecExample == InitExample /\ [][NextExample]_vars

\* the questions both users answered that ended in a divergent bucket
DivergentShared == (analysis.uniqueA \cup analysis.uniqueB) \cap DOMAIN a1_map \cap DOMAIN a2_map

\* C11 as stated: in the example, Q1 is an agreement and both Q2 (-1 vs 1) and
\* Q3 (1 vs -2) are divergent: one agreement, no complementary, two divergent.
C11_ExampleAsStated ==
    (analysis.done /\ a1_map = ExampleA /\ a2_map = ExampleB) =>
        /\ DOMAIN a1_map \cap DOMAIN a2_map = {1, 2, 3}
        /\ analysis.shared = {1}
        /\ analysis.complementary = {}
        /\ DivergentShared = {2, 3}

\* C11 amended: in the example the shared set is {Q1, Q2, Q3}; Q1 is an
\* agreement, Q2 (-1 vs 1, opposite sign and equal magnitude) is complementary
\* and Q3 (1 vs -2) is divergent: one agreement, one complementary, one divergent.
C11_ExampleBuckets ==
    (analysis.done /\ a1_map = ExampleA /\ a2_map = ExampleB) =>
        /\ DOMAIN a1_map \cap DOMAIN a2_map = {1, 2, 3}
        /\ analysis.outcome = "returned"
        /\ analysis.shared = {1}
        /\ analysis.complementary = {2}
        /\ DivergentShared = {3}

\* the analysis of the two answer sets of the example
C11_Witness ==
    /\ analysis.done
    /\ analysis.outcome = "returned"
    /\ a1_map = ExampleA
    /\ a2_map = ExampleB

\* ---------------------------------------------------------- zero overlap
\* the user answered the last question only
OnlyLast == [q \in {NumQuestions} |-> 2]

\* answer sets that share nothing, next to answer sets that share enough
InitOverlap ==
    /\ InitIdle
    /\ answers \in [Users -> {Uniform(0, 2), Uniform(MinSharedQuestions, 2),
                              OnlyLast, Uniform(NumQuestions, 2)}]
    /\ answer_rows = RowsOf(answers)
    /\ is_active = [u \in Users |-> TRUE]
    /\ member = [u \in Users |-> Groups]
    /\ session_active = TRUE
    /\ pending = {}

NextOverlap == FindMatches \/ ConsumeResult

SpecOverlap == InitOverlap /\ [][NextOverlap]_vars

\* the answers of u the call compared, those to the questions of its group
GroupAnswers(u) == get_user_answers_for_group(u, call.group, TRUE)

\* C12: when the target user and a candidate share no question (one of the
\* sets may be empty), the cohesion computation gives exactly score 0,
\* shared count 0 and empty category mappings, with a non-zero denominator,
\* and the candidate is not ranked; for a target user without answers in the
\* group find_matches returns normally with the empty list.
C12_ZeroOverlap ==
    call.made =>
        /\ \A c \in Range(call.order) :
            DOMAIN GroupAnswers(call.user) \cap DOMAIN GroupAnswers(c) = {} =>
                /\ calculate_cohesion_scores(call.user, c, call.group, TRUE) = ZeroCohesion
                /\ c \notin ResultIds
        /\ GroupAnswers(call.user) = <<>> =>
            (call.outcome = "returned" /\ call.result = <<>>)

\* a candidate with answers was scored against a target user with answers to
\* other questions only, while another candidate is ranked
C12_Witness ==
    /\ call.made
    /\ call.result # <<>>
    /\ \E c \in Range(call.order) \ call.failed :
        /\ GroupAnswers(c) # <<>>
        /\ GroupAnswers(call.user) # <<>>
        /\ DOMAIN GroupAnswers(call.user) \cap DOMAIN GroupAnswers(c) = {}

\* ------------------------------------------------ cohesion calculator
\* category mappings over any subset of the questions Q; a question in the
\* mapping may have no category
CategoryMaps(Q) ==
    UNION {[D -> {NoCategory, "values", "lifestyle"}] : D \in SUBSET Q}

\* every pair of answer sets and every category mapping
InitCohesion ==
    /\ InitEmptyStore
    /\ a1_map \in AnswerMaps(1..AnalysisQuestions)
    /\ a2_map \in AnswerMaps(1..AnalysisQuestions)
    /\ question_categories \in CategoryMaps(1..AnalysisQuestions)

NextCohesion == ComputeCohesion

SpecCohesion == InitCohesion /\ [][NextCohesion]_vars

\* C13: the cohesion computation gives the same score, shared count,
\* category scores and category counts for (A, B) and for (B, A), whatever
\* the category mapping.
C13_Symmetry ==
    cohesion.done =>
        LET swapped == compute_cohesion(a2_map, a1_map, question_categories)
        IN /\ ScoreEQ(cohesion.result, swapped)
           /\ cohesion.result.common = swapped.common
           /\ cohesion.result.category_scores = swapped.category_scores
           /\ cohesion.result.category_counts = swapped.category_counts

\* two different answer sets with a near-agreement, the second user the stronger
C13_Witness ==
    /\ cohesion.done
    /\ \E q \in DOMAIN a1_map \cap DOMAIN a2_map :
        /\ Abs(a1_map[q] - a2_map[q]) = 1
        /\ Abs(a1_map[q]) < Abs(a2_map[q])
    /\ cohesion.result.common = AnalysisQuestions

\* C14: the score lies in the closed range from ScoreMin to ScoreMax (-1/4 to
\* 1 with the weights of the model), the same range for every number of shared
\* questions, and its denominator is never zero.
C14_BoundedScore ==
    cohesion.done =>
        /\ cohesion.result.den > 0
        /\ ScoreGE(cohesion.result, ScoreMin)
        /\ ScoreGE(ScoreMax, cohesion.result)

\* the lower end of the range is met with every question shared and divergent
C14_Witness ==
    /\ cohesion.done
    /\ cohesion.result.common = AnalysisQuestions
    /\ cohesion.result.common >= 2
    /\ ScoreEQ(cohesion.result, ScoreMin)

RECURSIVE SumOver(_, _)
\* the sum of the values of f over the keys in S
SumOver(f, S) ==
    IF S = {} THEN 0
    ELSE LET k == CHOOSE x \in S : TRUE IN f[k] + SumOver(f, S \ {k})

\* the shared questions without a category: not in the mapping, or in it
\* with no category
Uncategorized ==
    {q \in DOMAIN a1_map \cap DOMAIN a2_map :
        q \notin DOMAIN question_categories \/ question_categories[q] = NoCategory}

\* C16: the category counts sum to the shared count, category scores and
\* category counts have the same keys, and the shared questions missing from
\* the category mapping or without a category are counted under
\* "uncategorized".
C16_CategoryBreakdown ==
    cohesion.done =>
        LET r == cohesion.result IN
        /\ DOMAIN r.category_scores = DOMAIN r.category_counts
        /\ SumOver(r.category_counts, DOMAIN r.category_counts) = r.common
        /\ \A c \in DOMAIN r.category_counts : r.category_counts[c] >= 1
        /\ Uncategorized # {} =>
            /\ "uncategorized" \in DOMAIN r.category_counts
            /\ r.category_counts["uncategorized"] = Cardinality(Uncategorized)
        /\ Uncategorized = {} => "uncategorized" \notin DOMAIN r.category_counts

\* one shared question is missing from the mapping, another has a category
C16_Witness ==
    /\ cohesion.done
    /\ \E q \in Uncategorized : q \notin DOMAIN question_categories
    /\ \E q \in DOMAIN a1_map \cap DOMAIN a2_map : q \notin Uncategorized

\* ----------------------------------------------- maximal complementarity
\* every pair of answer sets, classified by ai_match_analysis and scored by
\* compute_cohesion
InitComplementary ==
    /\ InitEmptyStore
    /\ a1_map \in AnswerMaps(1..AnalysisQuestions)
    /\ a2_map \in AnswerMaps(1..AnalysisQuestions)
    /\ question_categories = <<>>

NextComplementary == Analyse \/ ComputeCohesion

SpecComplementary == InitComplementary /\ [][NextComplementary]_vars

\* the two users share a question and answered every shared question with
\* opposite extremes, 2 against -2
OppositeExtremes ==
    /\ DOMAIN a1_map \cap DOMAIN a2_map # {}
    /\ \A q \in DOMAIN a1_map \cap DOMAIN a2_map : {a1_map[q], a2_map[q]} = {2, -2}

\* C15: when every shared question is answered 2 by one user and -2 by the
\* other, every shared question is in the complementary bucket, none in the
\* agreement bucket and none in a divergent one, and the score is strictly
\* above the minimum of the score range.
C15_MaximalComplementarity ==
    OppositeExtremes =>
        /\ analysis.done =>
            /\ analysis.complementary = DOMAIN a1_map \cap DOMAIN a2_map
            /\ analysis.shared = {}
            /\ DivergentShared = {}
        /\ cohesion.done => ScoreGT(cohesion.result, ScoreMin)

\* all questions shared and answered with opposite extremes, classified and scored
C15_Witness ==
    /\ OppositeExtremes
    /\ analysis.done
    /\ cohesion.done
    /\ cohesion.result.common = AnalysisQuestions
    /\ \E q \in DOMAIN a1_map : a1_map[q] = 2
    /\ \E q \in DOMAIN a1_map : a1_map[q] = -2

\* ------------------------------------------- answer and question stores
\* an empty answers table; answers are saved, questions are deactivated, and
\* the first user is compared with another one
InitStore ==
    /\ InitEmptyStore
    /\ a1_map = <<>>
    /\ a2_map = <<>>
    /\ question_categories = <<>>

NextStore == SaveAnswer \/ MarkInactive \/ AiMatchAnalysis

SpecStore == InitStore /\ [][NextStore]_vars

\* the questions the analysis put in some bucket
Bucketed ==
    analysis.shared \cup analysis.complementary \cup analysis.uniqueA \cup analysis.uniqueB

\* C17: an inactive question is in no bucket of the comparison, and the
\* comparison does not fail because one of the users answered an inactive
\* question: when the question query and the completion request succeed, it
\* returns.
C17_InactiveExcluded ==
    (analysis.done /\ analysis.env_ok) =>
        /\ analysis.outcome = "returned"
        /\ \A q \in Questions : ~q_active[q] => q \notin Bucketed

\* C18: a question both users answered, one of them with a value outside
\* {-2, -1, 1, 2}, is in no bucket of the comparison.
C18_InvalidRejected ==
    (analysis.done /\ analysis.outcome = "returned") =>
        \A q \in DOMAIN a1_map \cap DOMAIN a2_map :
            (a1_map[q] \notin AnswerValues \/ a2_map[q] \notin AnswerValues) =>
                q \notin Bucketed

\* C19: for every (user, question) a completed save_answer call was made for
\* there is exactly one row, and it holds the answer_type and value of the
\* last completed call for that pair.
C19_OneRowPerPair ==
    \A p \in DOMAIN saved :
        /\ Cardinality(RowIds(answer_rows, p[1], p[2])) = 1
        /\ \A i \in RowIds(answer_rows, p[1], p[2]) : answer_rows[i] = saved[p]

\* C20: every row of the answers table has a value in {-2, -1, 1, 2}.
C20_ValueDomain ==
    \A i \in 1..Len(answer_rows) : answer_rows[i].value \in AnswerValues

\* faulty variant: the join without the condition on Question.group_id
answers_for_group_query_any_group(rows, u, g) ==
    LET newest_first == [i \in 1..Len(rows) |-> Len(rows) + 1 - i]
    IN SelectSeq(newest_first, LAMBDA i : rows[i].user_id = u)

\* ------------------------------------------- answers of a user in a group
\* the questions of the store spread over the groups, every user having
\* answered every question
\* "select(Answer).join(Question, Answer.question_id == Question.id).where(
\*  Answer.user_id == user_id, Question.group_id == group_id)
\*  .order_by(Answer.created_at.desc())": the ids of the rows, newest first
answers_for_group_query(rows, u, g) ==
    LET newest_first == [i \in 1..Len(rows) |-> Len(rows) + 1 - i]
    IN SelectSeq(newest_first,
                 LAMBDA i : rows[i].user_id = u /\ question_group(rows[i].question_id) = g)

\* AnswerRepository.get_user_answers_for_group(session, u, g): the session
\* is committed, then the query runs; "except Exception: return []"
GetUserAnswersForGroup ==
    \E u \in Users, g \in Groups, commit_ok \in BOOLEAN, query_ok \in BOOLEAN :
        LET committed == session_active /\ commit_ok
            ok == committed /\ query_ok
        IN /\ is_active' = IF committed THEN session_commit(is_active, pending)
                           ELSE is_active
           /\ pending' = IF session_active THEN {} ELSE pending
           /\ ret' = [op |-> "get_user_answers_for_group", user_id |-> u,
                      group_id |-> g, ok |-> ok,
                      result |-> IF ok THEN answers_for_group_query(answer_rows, u, g)
                                 ELSE <<>>]
           /\ UNCHANGED <<answers, answer_rows, saved, q_active, member, blocked>>
           /\ UNCHANGED <<user_id, session_active>>
           /\ UNCHANGED <<callVars, analysisVars, storeVars, botVars, tasks, retry>>

\* the old variables at rest: an empty answer store, the first user's session
InitQuiet ==
    /\ InitIdleCore
    /\ user_id = 1
    /\ answers = [u \in Users |-> <<>>]
    /\ answer_rows = RowsOf(answers)
    /\ is_active = [u \in Users |-> TRUE]
    /\ member = [u \in Users |-> Groups]
    /\ session_active = TRUE
    /\ pending = {}

InitFetch ==
    /\ InitIdleCore
    /\ answers = [u \in Users |-> Uniform(NumQuestions, 2)]
    /\ answer_rows = RowsOf(answers)
    /\ is_active = [u \in Users |-> TRUE]
    /\ member = [u \in Users |-> Groups]
    /\ session_active \in BOOLEAN
    /\ pending \in {{}, {NumUsers}}
    /\ q_group \in [Questions -> Groups]
    /\ NoChats
    /\ NoAccounts
    /\ NoRuns

NextFetch == GetUserAnswersForGroup

SpecFetch == InitFetch /\ [][NextFetch]_vars

\* C21: every Answer returned by get_user_answers_for_group(user_id, group_id)
\* is a row of user_id for a question of group_id, and a call the store
\* failed in returns no rows at all
C21_GroupIsolation ==
    ret.op = "get_user_answers_for_group" =>
        /\ \A k \in 1..Len(ret.result) :
              /\ answer_rows[ret.result[k]].user_id = ret.user_id
              /\ q_group[answer_rows[ret.result[k]].question_id] = ret.group_id
        /\ ~ret.ok => ret.result = <<>>

\* a call returned rows although the same user has answers in another group
C21_Witness ==
    /\ ret.op = "get_user_answers_for_group"
    /\ ret.result # <<>>
    /\ \E i \in 1..Len(answer_rows) :
          /\ answer_rows[i].user_id = ret.user_id
          /\ q_group[answer_rows[i].question_id] # ret.group_id

\* ------------------------------------------------------- chat sessions
\* matches a chat session can be created for, and the rows the model lets
\* the anonymous_chat_sessions table grow to
NumMatches == 2
MaxChatSessions == 2

MatchIds == 1..NumMatches

\* create_chat_session: the row added for a fresh session_id token
new_chat_session(rows, initiator_id, recipient_id, match_id) ==
    [session_id |-> Len(rows) + 1, initiator_id |-> initiator_id,
     recipient_id |-> recipient_id, match_id |-> match_id, status |-> "pending"]

\* create_chat_session(session, initiator_id, recipient_id, match_id):
\* session.add, commit, refresh, return the row; a failing commit raises
CreateChatSession ==
    \E initiator_id \in Users, match_id \in MatchIds, commit_ok \in BOOLEAN :
      \E recipient_id \in Users \ {initiator_id} :
        /\ Len(chat_sessions) < MaxChatSessions
        /\ chat_sessions' =
              IF commit_ok
              THEN Append(chat_sessions,
                          new_chat_session(chat_sessions, initiator_id, recipient_id, match_id))
              ELSE chat_sessions
        /\ ret' = [op |-> "create_chat_session", match_id |-> match_id,
                   outcome |-> IF commit_ok THEN "returned" ELSE "raised",
                   id |-> IF commit_ok THEN Len(chat_sessions) + 1 ELSE 0]
        /\ UNCHANGED <<q_group, chats, chat_messages, points, user_states>>
        /\ UNCHANGED <<coreVars, botVars, tasks, retry>>

InitChatSession == InitQuiet /\ InitExt

NextChatSession == CreateChatSession

SpecChatSession == InitChatSession /\ [][NextChatSession]_vars

\* C22: the chat session create_chat_session returned exists, refers to the
\* given match and has status "active"
C22_CreatedActive ==
    (ret.op = "create_chat_session" /\ ret.outcome = "returned") =>
        /\ ret.id \in 1..Len(chat_sessions)
        /\ chat_sessions[ret.id].match_id = ret.match_id
        /\ chat_sessions[ret.id].status = "active"

\* --------------------------------------------------------- with_retry
\* the largest max_attempts a function is wrapped with; find_matches is
\* wrapped with max_attempts = 3
MaxAttempts == 3
FindMatchesAttempts == 3

\* faulty variant: one more round than max_attempts
retry_again_inclusive(attempt, max_attempts) == attempt <= max_attempts

\* "if attempt < max_attempts": sleep and go round again, else re-raise
retry_again(attempt, max_attempts) == attempt < max_attempts

RetryDone == {"returned", "raised"}

\* wrapper(*args, **kwargs) is entered: "last_exception = None", then the
\* first round of "for attempt in range(1, max_attempts + 1)"; with no
\* round to run the code after the loop raises RuntimeError
EnterWrapper ==
    /\ retry.status = "idle"
    /\ retry' = IF retry.max_attempts >= 1
                THEN [retry EXCEPT !.attempt = 1, !.status = "running"]
                ELSE [retry EXCEPT !.status = "raised", !.error = "RuntimeError"]
    /\ UNCHANGED <<coreVars, storeVars, botVars, tasks, ret>>

\* one round of the loop: ensure_active_session when a session was passed
\* by keyword, then func; the environment decides what each of them does
Attempt ==
    /\ retry.status = "running"
    /\ \E ensured \in (IF retry.kw /\ ~retry.session_ok
                       THEN {"ok", "db_error", "other_error"} ELSE {"ok"}),
          body \in {"returned", "db_error", "other_error"} :
        LET outcome == IF ensured = "ok" THEN body ELSE ensured
            invoked == IF ensured = "ok" THEN retry.invoked + 1 ELSE retry.invoked
            session_ok == retry.session_ok \/ (retry.kw /\ ensured = "ok")
            tried == [retry EXCEPT !.invoked = invoked, !.session_ok = session_ok]
        IN retry' =
             IF outcome = "returned"
             THEN [tried EXCEPT !.status = "returned", !.result = retry.attempt]
             ELSE IF outcome = "other_error"
             THEN [tried EXCEPT !.status = "raised", !.error = "other"]
             ELSE IF retry_again(retry.attempt, retry.max_attempts)
             THEN [tried EXCEPT !.status = "sleeping",
                                !.last_exception = retry.attempt]
             ELSE [tried EXCEPT !.status = "raised", !.error = "database",
                                !.last_exception = retry.attempt]
    /\ UNCHANGED <<coreVars, storeVars, botVars, tasks, ret>>

\* "await asyncio.sleep(delay)" returns and the next round begins
Backoff ==
    /\ retry.status = "sleeping"
    /\ retry' = [retry EXCEPT !.attempt = retry.attempt + 1, !.status = "running"]
    /\ UNCHANGED <<coreVars, storeVars, botVars, tasks, ret>>

InitRetry ==
    /\ InitIdleCore
    /\ answers = [u \in Users |-> <<>>]
    /\ answer_rows = RowsOf(answers)
    /\ is_active = [u \in Users |-> TRUE]
    /\ member = [u \in Users |-> Groups]
    /\ session_active \in BOOLEAN
    /\ pending = {}
    /\ OneGroup
    /\ NoChats
    /\ NoAccounts
    /\ tasks = <<>>
    /\ ret = NoRet
    /\ \E n \in 0..MaxAttempts, kw \in BOOLEAN :
          retry = [NoRetry EXCEPT !.max_attempts = n, !.kw = kw,
                                  !.session_ok = session_active]

NextRetry == EnterWrapper \/ Attempt \/ Backoff

SpecRetry == InitRetry /\ [][NextRetry]_vars

\* the event loop keeps running the call: a wrapper that can take a step
\* takes it
SpecRetryFair == SpecRetry /\ WF_vars(NextRetry)

\* what holds of the wrapper in every state of a call
RetryBounded ==
    /\ retry.invoked <= retry.attempt
    /\ retry.attempt <= retry.max_attempts
    /\ retry.invoked <= retry.max_attempts
    /\ (retry.attempt >= 2 /\ retry.status = "running") =>
            retry.last_exception = retry.attempt - 1
    /\ retry.status = "sleeping" => retry.last_exception = retry.attempt
    /\ retry.status = "returned" =>
            retry.result = retry.attempt /\ retry.invoked >= 1
    /\ (retry.status = "raised" /\ retry.error = "database") =>
            /\ retry.attempt = retry.max_attempts
            /\ retry.last_exception = retry.max_attempts
    /\ retry.max_attempts = FindMatchesAttempts => retry.invoked <= 3

\* C23: a function wrapped by with_retry(max_attempts = n) is invoked at most
\* n times; a new round starts only after a database error; a returned
\* result or any other exception ends the call at once; after n failing
\* rounds the last database error is re-raised; and every call ends
C23_BoundedRetry ==
    /\ []RetryBounded
    /\ [][retry.status \in RetryDone => retry' = retry]_vars
    /\ <>(retry.status \in RetryDone)

\* the third invocation of a function wrapped with max_attempts = 3 failed
\* on the database as the two before it, and the error was re-raised
C23_Witness ==
    /\ retry.max_attempts = FindMatchesAttempts
    /\ retry.status = "raised"
    /\ retry.error = "database"
    /\ retry.invoked = 3

\* ------------------------------------------------ critical-state store
\* the largest balance, the largest ttl_seconds and the last tick of the clock
MaxPoints == 1
MaxTTL == 1
MaxTime == 2

\* "operation" of a saved state: the two abandoned ones, and one that the
\* LIKE '%find_match_%' of the recovery finds but that is not abandoned
AbandonedOperations == {"find_match_started", "find_match_points_deducted"}
Operations == AbandonedOperations \cup {"find_match_completed"}

\* the state dictionaries user u saves for an operation of its own among ops
StateData(u, ops) ==
    {[operation |-> o, user_id |-> u, original_points |-> p, cost |-> 1] :
        o \in ops, p \in 0..MaxPoints}

\* json.dumps / json.loads of such a dictionary: the text lists the values
\* of its keys
json_dumps(d) == <<d.operation, d.user_id, d.original_points, d.cost>>
json_loads(t) ==
    [operation |-> t[1], user_id |-> t[2], original_points |-> t[3], cost |-> t[4]]

\* select(UserState).where(UserState.user_id == user_id): positions of the rows
StateRows(rows, u) == {i \in 1..Len(rows) : rows[i].user_id = u}

\* faulty variant: every save adds a row
save_critical_state_insert_only(rows, u, d, ttl_seconds, t) ==
    [ok |-> TRUE,
     rows |-> Append(rows, [user_id |-> u, state_data |-> json_dumps(d),
                            expires_at |-> t + ttl_seconds])]

\* save_critical_state: scalar_one_or_none() raises on several rows; an
\* existing row is updated in place, else a new row is added
save_critical_state(rows, u, d, ttl_seconds, t) ==
    LET found == StateRows(rows, u)
        row == [user_id |-> u, state_data |-> json_dumps(d),
                expires_at |-> t + ttl_seconds]
    IN IF Cardinality(found) > 1 THEN [ok |-> FALSE, rows |-> rows]
       ELSE IF found # {}
       THEN [ok |-> TRUE, rows |-> [rows EXCEPT ![CHOOSE i \in found : TRUE] = row]]
       ELSE [ok |-> TRUE, rows |-> Append(rows, row)]

\* delete(UserState).where(UserState.user_id == user_id)
delete_critical_state(rows, u) == SelectSeq(rows, LAMBDA r : r.user_id # u)

\* load_critical_state: None for no row, for several rows (the exception
\* is caught) and for an expired row, which is deleted
NoState == [operation |-> "None"]

load_critical_state(rows, u, t) ==
    LET found == StateRows(rows, u)
        i == CHOOSE k \in found : TRUE
    IN IF Cardinality(found) # 1 THEN [result |-> NoState, rows |-> rows]
       ELSE IF rows[i].expires_at < t
       THEN [result |-> NoState, rows |-> delete_critical_state(rows, u)]
       ELSE [result |-> json_loads(rows[i].state_data), rows |-> rows]

\* save_critical_state(session, u, d, ttl_seconds) as a completed call of a
\* user of US for an operation of ops; a failing query or commit is caught
\* and False returned
DoSaveCriticalState(US, ops) ==
    \E u \in US, ttl_seconds \in 1..MaxTTL, store_ok \in BOOLEAN :
      \E d \in StateData(u, ops) :
        LET saved_to == save_critical_state(user_states, u, d, ttl_seconds, now)
            ok == store_ok /\ saved_to.ok
        IN /\ Len(saved_to.rows) <= NumUsers
           /\ user_states' = IF ok THEN saved_to.rows ELSE user_states
           /\ ret' = [op |-> "save_critical_state", user_id |-> u, data |-> d,
                      result |-> ok]
           /\ UNCHANGED <<q_group, chat_sessions, chats, chat_messages, points>>
           /\ UNCHANGED <<coreVars, botVars, tasks, retry>>

SaveCriticalState == DoSaveCriticalState(Users, Operations)

\* ------------------------------------------- abandoned-match recovery
\* find_abandoned_matches: the rows whose state_data matches
\* LIKE '%find_match_%' (every operation of the model does), parsed, those
\* with an abandoned operation kept, in table order
find_abandoned_matches(rows) ==
    LET parsed == [i \in 1..Len(rows) |-> json_loads(rows[i].state_data)]
    IN SelectSeq(parsed, LAMBDA d : d.operation \in AbandonedOperations)

\* recover_abandoned_match(session, state_data) on balances pts and state
\* rows: "if not user_id", "if not db_user", "if not original_points or not
\* operation" return False; else the balance is restored, the state deleted
recover_abandoned_match(d, pts, rows) ==
    IF d.user_id = 0 \/ d.user_id \notin Users
    THEN [result |-> FALSE, points |-> pts, rows |-> rows]
    ELSE IF d.original_points = 0 \/ d.operation = ""
    THEN [result |-> FALSE, points |-> pts, rows |-> rows]
    ELSE IF d.operation \in AbandonedOperations
    THEN [result |-> TRUE,
          points |-> [pts EXCEPT ![d.user_id] = d.original_points],
          rows |-> delete_critical_state(rows, d.user_id)]
    ELSE [result |-> FALSE, points |-> pts, rows |-> rows]

\* the loop of recover_all_abandoned_matches over entries k, k + 1, ...
RECURSIVE RecoverLoop(_, _, _, _, _)
RecoverLoop(entries, k, pts, rows, returns) ==
    IF k > Len(entries)
    THEN [points |-> pts, rows |-> rows, returns |-> returns]
    ELSE LET r == recover_abandoned_match(entries[k], pts, rows)
         IN RecoverLoop(entries, k + 1, r.points, r.rows, Append(returns, r.result))

\* recover_all_abandoned_matches(session) as run at startup; a failing
\* query finds nothing, a failing commit makes each recovery return False
RecoverAllAbandonedMatches ==
    \E query_ok \in BOOLEAN, commit_ok \in BOOLEAN :
        LET entries == IF query_ok THEN find_abandoned_matches(user_states) ELSE <<>>
            done == IF commit_ok
                    THEN RecoverLoop(entries, 1, points, user_states, <<>>)
                    ELSE [points |-> points, rows |-> user_states,
                          returns |-> [k \in 1..Len(entries) |-> FALSE]]
        IN /\ points' = done.points
           /\ user_states' = done.rows
           /\ ret' = [op |-> "recover_all_abandoned_matches",
                      ok |-> query_ok /\ commit_ok,
                      entries |-> entries, returns |-> done.returns,
                      found |-> Len(entries),
                      recovered |-> Cardinality({k \in 1..Len(entries) : done.returns[k]})]
           /\ UNCHANGED <<q_group, chat_sessions, chats, chat_messages>>
           /\ UNCHANGED <<coreVars, botVars, tasks, retry>>

InitRecovery ==
    /\ InitQuiet
    /\ OneGroup
    /\ NoChats
    /\ points = [u \in Users |-> 1]
    /\ user_states = <<>>
    /\ now = 0
    /\ NoRuns

NextRecovery == SaveCriticalState \/ RecoverAllAbandonedMatches

SpecRecovery == InitRecovery /\ [][NextRecovery]_vars

\* C24: after a run of recover_all_abandoned_matches in which the store did
\* not fail, every state that was persisted with an abandoned operation for
\* an existing user was recovered: its recovery returned True, the user's
\* points are the recorded original_points, and no state of the user is left
\* for a second run to find
C24_RecoveryRestores ==
    (ret.op = "recover_all_abandoned_matches" /\ ret.ok) =>
        \A k \in 1..Len(ret.entries) :
            ret.entries[k].user_id \in Users =>
                /\ ret.returns[k]
                /\ points[ret.entries[k].user_id] = ret.entries[k].original_points
                /\ StateRows(user_states, ret.entries[k].user_id) = {}

\* --------------------------------------------------- points of a user
\* calls of add_points and subtract_points running at the same time, each
\* in its own session, all for the first user
NumTasks == 2

Tasks == 1..NumTasks

\* "user = await self.get(session, user_id)" of call t, and in
\* subtract_points "if user.points < points: return user"
PointsGet(t) ==
    /\ tasks[t].pc = "get"
    /\ tasks' = [tasks EXCEPT ![t] =
          IF tasks[t].op = "subtract_points" /\ points[tasks[t].user_id] < tasks[t].amount
          THEN [@ EXCEPT !.pc = "done", !.seen = points[tasks[t].user_id],
                         !.result = points[tasks[t].user_id]]
          ELSE [@ EXCEPT !.pc = "update", !.seen = points[tasks[t].user_id]]]
    /\ UNCHANGED <<coreVars, storeVars, botVars, retry, ret>>

\* "update(User).where(User.id == user_id).values(points=User.points +/-
\* points).returning(User)" of call t, executed and committed
PointsUpdate(t) ==
    /\ tasks[t].pc = "update"
    /\ LET u == tasks[t].user_id
           after == IF tasks[t].op = "add_points"
                    THEN points[u] + tasks[t].amount
                    ELSE points[u] - tasks[t].amount
       IN /\ points' = [points EXCEPT ![u] = after]
          /\ tasks' = [tasks EXCEPT ![t] = [@ EXCEPT !.pc = "done", !.result = after]]
    /\ UNCHANGED <<q_group, chat_sessions, chats, chat_messages, user_states>>
    /\ UNCHANGED <<coreVars, botVars, retry, ret>>

PointsCalls ==
    {[op |-> o, user_id |-> 1, amount |-> a, pc |-> "get", seen |-> 0, result |-> 0] :
        o \in {"add_points", "subtract_points"}, a \in 0..MaxPoints}

InitPoints ==
    /\ InitQuiet
    /\ OneGroup
    /\ NoChats
    /\ points \in [Users -> 0..MaxPoints]
    /\ user_states = <<>>
    /\ now = 0
    /\ tasks \in [Tasks -> PointsCalls]
    /\ retry = NoRetry
    /\ ret = NoRet

NextPoints == \E t \in Tasks : PointsGet(t) \/ PointsUpdate(t)

SpecPoints == InitPoints /\ [][NextPoints]_vars

\* C25: whatever the interleaving of the add_points and subtract_points
\* calls, no user's points are below 0, and a subtract_points call that saw
\* fewer points than its amount changed nothing
C25_PointsNonNegative ==
    /\ \A u \in Users : points[u] >= 0
    /\ \A t \in Tasks :
          (tasks[t].op = "subtract_points" /\ tasks[t].pc = "done"
             /\ tasks[t].seen < tasks[t].amount) => tasks[t].result = tasks[t].seen

\* ------------------------------------------------- chats of two users
\* the rows find_or_create_chat selects: the active chats of the two users,
\* in either role, in the group
active_chats_of(rows, user1_id, user2_id, group_id) ==
    {i \in 1..Len(rows) :
        /\ \/ rows[i].initiator_id = user1_id /\ rows[i].recipient_id = user2_id
           \/ rows[i].initiator_id = user2_id /\ rows[i].recipient_id = user1_id
        /\ rows[i].status = "active"
        /\ rows[i].group_id = group_id}

\* find_or_create_chat of call t up to "if existing_chat: return
\* existing_chat"; scalar_one_or_none() raises when it finds several rows
ChatLookup(t) ==
    /\ tasks[t].pc = "lookup"
    /\ LET found == active_chats_of(chats, tasks[t].user1_id, tasks[t].user2_id,
                                    tasks[t].group_id)
       IN tasks' = [tasks EXCEPT ![t] =
            IF Cardinality(found) > 1
            THEN [@ EXCEPT !.pc = "done", !.outcome = "MultipleResultsFound"]
            ELSE IF found # {}
            THEN [@ EXCEPT !.pc = "done", !.outcome = "returned",
                           !.result = CHOOSE i \in found : TRUE]
            ELSE [@ EXCEPT !.pc = "create"]]
    /\ UNCHANGED <<coreVars, storeVars, botVars, retry, ret>>

\* the rest of call t: the new Chat is added and committed; "except
\* Exception: return None"
ChatCreate(t) ==
    /\ tasks[t].pc = "create"
    /\ \E commit_ok \in BOOLEAN :
        /\ chats' = IF commit_ok
                    THEN Append(chats, [initiator_id |-> tasks[t].user1_id,
                                        recipient_id |-> tasks[t].user2_id,
                                        group_id |-> tasks[t].group_id,
                                        status |-> "active"])
                    ELSE chats
        /\ tasks' = [tasks EXCEPT ![t] =
              [@ EXCEPT !.pc = "done", !.outcome = "returned", !.created = commit_ok,
                        !.result = IF commit_ok THEN Len(chats) + 1 ELSE 0]]
    /\ UNCHANGED <<q_group, chat_sessions, chat_messages, points, user_states>>
    /\ UNCHANGED <<coreVars, botVars, retry, ret>>

\* calls for the first two users, given in either order
ChatCalls ==
    {[op |-> "find_or_create_chat", user1_id |-> a, user2_id |-> 3 - a,
      group_id |-> g, pc |-> "lookup", outcome |-> "none", result |-> 0,
      created |-> FALSE] : a \in 1..2, g \in Groups}

InitChats ==
    /\ InitQuiet
    /\ OneGroup
    /\ NoChats
    /\ NoAccounts
    /\ tasks \in [Tasks -> ChatCalls]
    /\ retry = NoRetry
    /\ ret = NoRet

NextChats == \E t \in Tasks : ChatLookup(t) \/ ChatCreate(t)

SpecChats == InitChats /\ [][NextChats]_vars

\* C26: whatever the interleaving of the find_or_create_chat calls, two
\* users have at most one active chat in a group, no lookup meets several
\* rows, and a call that found an active chat created none
C26_SingleActiveChat ==
    /\ \A a \in Users, b \in Users, g \in Groups :
          Cardinality(active_chats_of(chats, a, b, g)) <= 1
    /\ \A t \in Tasks : tasks[t].outcome # "MultipleResultsFound"

\* ------------------------------------------- answering at the same time
\* save_answer of call t up to "if existing_answer:": the existence check
AnswerLookup(t) ==
    /\ tasks[t].pc = "lookup"
    /\ LET existing_answer == get_answer(answer_rows, tasks[t].user_id,
                                         tasks[t].question_id, TRUE)
       IN tasks' = [tasks EXCEPT ![t] =
            [@ EXCEPT !.pc = IF existing_answer # 0 THEN "update" ELSE "create",
                      !.existing_answer = existing_answer]]
    /\ UNCHANGED <<coreVars, storeVars, botVars, retry, ret>>

\* the rest of call t: the row found is updated, or a new row inserted,
\* and the write committed
AnswerWrite(t) ==
    /\ tasks[t].pc \in {"update", "create"}
    /\ LET data == [user_id |-> tasks[t].user_id, question_id |-> tasks[t].question_id,
                    answer_type |-> tasks[t].answer_type, value |-> tasks[t].value]
       IN /\ answer_rows' = IF tasks[t].pc = "update"
                            THEN update_answer(answer_rows, tasks[t].existing_answer, data)
                            ELSE create_answer(answer_rows, data)
          /\ answers' = AnswersView(answer_rows')
          /\ saved' = [p \in DOMAIN saved \cup {<<data.user_id, data.question_id>>} |->
                          IF p = <<data.user_id, data.question_id>> THEN data ELSE saved[p]]
    /\ tasks' = [tasks EXCEPT ![t] = [@ EXCEPT !.pc = "done"]]
    /\ UNCHANGED <<q_active, is_active, member, blocked>>
    /\ UNCHANGED <<sessVars, callVars, analysisVars, storeVars, botVars, retry, ret>>

\* calls of the first user for one of the questions answers are saved for
AnswerCalls ==
    {[op |-> "save_answer", user_id |-> 1, question_id |-> q, answer_type |-> arg[1],
      value |-> arg[2], pc |-> "lookup", existing_answer |-> 0] :
        q \in AnsweredQuestions, arg \in AnswerArguments}

\* the first user has answered the first question already, or nothing yet
InitAnswering ==
    /\ InitIdleCore
    /\ user_id = 1
    /\ answers \in {[u \in Users |-> <<>>],
                    [u \in Users |-> IF u = 1 THEN Uniform(1, 2) ELSE <<>>]}
    /\ answer_rows = RowsOf(answers)
    /\ is_active = [u \in Users |-> TRUE]
    /\ member = [u \in Users |-> Groups]
    /\ session_active = TRUE
    /\ pending = {}
    /\ OneGroup
    /\ NoChats
    /\ NoAccounts
    /\ tasks \in [Tasks -> AnswerCalls]
    /\ retry = NoRetry
    /\ ret = NoRet

NextAnswering == \E t \in Tasks : AnswerLookup(t) \/ AnswerWrite(t)

SpecAnswering == InitAnswering /\ [][NextAnswering]_vars

\* C27: once the save_answer calls have completed, however they were
\* interleaved, the store holds exactly one row for the user and question of
\* each call, and get_answer finds it
C27_ConcurrentUnique ==
    \A t \in Tasks :
        (\A s \in Tasks : tasks[s].pc = "done") =>
            /\ Cardinality(RowIds(answer_rows, tasks[t].user_id, tasks[t].question_id)) = 1
            /\ get_answer(answer_rows, tasks[t].user_id, tasks[t].question_id, TRUE) # 0

\* --------------------------------------------------- relaying messages
\* the ChatMessage rows the model lets the table grow to
MaxMessages == 2

\* user_repo.get_by_telegram_user_id: the user with that telegram id, 0 for
\* None; user u has telegram id u
get_by_telegram_user_id(tg) == IF tg \in Users THEN tg ELSE 0

\* faulty variant: the status of the chat is not looked at
chat_is_active_any_status(rows, chat_id) == chat_id \in 1..Len(rows)

\* "chat = await get_chat_by_id(...)" and "not chat or chat.status != 'active'"
\* negated: the chat exists and is active
chat_is_active(rows, chat_id) ==
    chat_id \in 1..Len(rows) /\ rows[chat_id].status = "active"

\* check_recipient_state: the partner is notified unless in_chat with the sender
needs_notification(partner_tg, sender_id) ==
    fsm[partner_tg].state # "in_chat" \/ fsm[partner_tg].partner_id # sender_id

\* relay_text_message for a text from account tg, which is in state in_chat.
\* The environment decides whether the sender has a history message to edit
\* and whether create_message and the sends succeed (a failure raises and
\* ends the handler there).
RelayTextMessage ==
    \E tg \in TelegramUsers, has_history \in BOOLEAN, create_ok \in BOOLEAN,
       send_ok \in BOOLEAN :
        LET user == get_by_telegram_user_id(tg)
            partner_id == fsm[tg].partner_id
            chat_id == fsm[tg].chat_id
            answer(text) == [to |-> tg, kind |-> "answer", text |-> text, id |-> 0]
            outcome ==
                IF user = 0 THEN "not_registered"
                ELSE IF partner_id = 0 \/ chat_id = 0 THEN "not_connected"
                ELSE IF ~chat_is_active(chats, chat_id) THEN "not_active"
                ELSE IF partner_id \notin Users THEN "no_partner"
                ELSE IF ~create_ok THEN "create_failed"
                ELSE IF ~send_ok THEN "send_failed"
                ELSE "relayed"
            stored == outcome \in {"send_failed", "relayed"}
            id == Len(chat_messages) + 1
        IN /\ fsm[tg].state = "in_chat"
           /\ stored => Len(chat_messages) < MaxMessages
           /\ chat_messages' =
                IF stored
                THEN Append(chat_messages,
                            [chat_id |-> chat_id, sender_id |-> user,
                             content_type |-> "text", text_content |-> "text"])
                ELSE chat_messages
           /\ fsm' = IF outcome \in {"not_connected", "not_active"}
                     THEN [fsm EXCEPT ![tg] = NoFsm]
                     ELSE fsm
           /\ sent' = sent \cup
                (CASE outcome = "not_registered" ->
                        {answer("You need to register in the main bot first.")}
                   [] outcome = "not_connected" ->
                        {answer("You are not connected to anyone. Select a chat first.")}
                   [] outcome = "not_active" ->
                        {answer("This chat is no longer active.")}
                   [] outcome = "no_partner" ->
                        {answer("Cannot find your chat partner. They may have left.")}
                   [] outcome = "create_failed" -> {}
                   [] OTHER ->
                        (IF has_history
                         THEN {[to |-> tg, kind |-> "history", text |-> "text", id |-> id]}
                         ELSE {})
                        \cup
                        (IF outcome = "relayed" /\ needs_notification(partner_id, user)
                         THEN {[to |-> partner_id, kind |-> "notification",
                                text |-> "New message", id |-> id]}
                         ELSE {})
                        \cup
                        (IF outcome = "relayed"
                         THEN {[to |-> partner_id, kind |-> "forward",
                                text |-> "text", id |-> id]}
                         ELSE {}))
           /\ ret' = [op |-> "relay_text_message", sender |-> tg, outcome |-> outcome]
           /\ UNCHANGED <<q_group, chat_sessions, chats, points, user_states>>
           /\ UNCHANGED <<coreVars, now, tasks, retry>>

\* end_chat_session(session, chat_id): the chat, when found, gets status
\* "ended"; an exception is logged and False returned
EndChatSession ==
    \E chat_id \in 1..(Len(chats) + 1), commit_ok \in BOOLEAN :
        LET found == chat_id \in 1..Len(chats) IN
        /\ chats' = IF found /\ commit_ok
                    THEN [chats EXCEPT ![chat_id].status = "ended"]
                    ELSE chats
        /\ ret' = [op |-> "end_chat_session", chat_id |-> chat_id,
                   result |-> found /\ commit_ok]
        /\ UNCHANGED <<q_group, chat_sessions, chat_messages, points, user_states>>
        /\ UNCHANGED <<coreVars, botVars, tasks, retry>>

\* what the FSM storage may hold for account tg when a text arrives: the
\* first two users may be in a chat, with a partner and a chat that exist,
\* are missing (0) or are unknown; the unregistered account may be in the
\* chat with the first user
FsmChoices(tg) ==
    IF tg \in {1, 2}
    THEN {NoFsm} \cup
         {[state |-> "in_chat", partner_id |-> p, chat_id |-> c] :
             p \in {0, 1, 2, Unregistered} \ {tg}, c \in 0..2}
    ELSE IF tg = Unregistered
    THEN {NoFsm, [state |-> "in_chat", partner_id |-> 1, chat_id |-> 1]}
    ELSE {NoFsm}

\* one chat of the first two users, active
InitRelay ==
    /\ InitQuiet
    /\ OneGroup
    /\ chat_sessions = <<>>
    /\ chats = <<[initiator_id |-> 1, recipient_id |-> 2, group_id |-> 1,
                  status |-> "active"]>>
    /\ chat_messages = <<>>
    /\ fsm \in {f \in [TelegramUsers -> UNION {FsmChoices(tg) : tg \in TelegramUsers}] :
                    \A tg \in TelegramUsers : f[tg] \in FsmChoices(tg)}
    /\ sent = {}
    /\ NoAccounts
    /\ NoRuns

NextRelay == RelayTextMessage \/ EndChatSession

SpecRelay == InitRelay /\ [][NextRelay]_vars

\* the step stored a ChatMessage; the step forwarded a text
RelayStored == chat_messages' # chat_messages
RelayForwarded == \E m \in sent' \ sent : m.kind = "forward"

StateUsers == {1, 2}

SaveOwnState == DoSaveCriticalState(StateUsers, {"find_match_started"})

\* load_critical_state(session, u) as a completed call; any exception is
\* caught and None returned
LoadCriticalState ==
    \E u \in StateUsers, store_ok \in BOOLEAN :
        LET loaded == load_critical_state(user_states, u, now)
            outcome == IF ~store_ok THEN "failed"
                       ELSE IF loaded.result # NoState THEN "loaded"
                       ELSE IF loaded.rows # user_states THEN "expired"
                       ELSE "none"
        IN /\ user_states' = IF store_ok THEN loaded.rows ELSE user_states
           /\ ret' = [op |-> "load_critical_state", user_id |-> u, outcome |-> outcome,
                      result |-> IF store_ok THEN loaded.result ELSE NoState]
           /\ UNCHANGED <<q_group, chat_sessions, chats, chat_messages, points>>
           /\ UNCHANGED <<coreVars, botVars, tasks, retry>>

\* delete_critical_state(session, u) as a completed call
DeleteCriticalState ==
    \E u \in StateUsers, store_ok \in BOOLEAN :
        /\ user_states' = IF store_ok THEN delete_critical_state(user_states, u)
                          ELSE user_states
        /\ ret' = [op |-> "delete_critical_state", user_id |-> u, result |-> store_ok]
        /\ UNCHANGED <<q_group, chat_sessions, chats, chat_messages, points>>
        /\ UNCHANGED <<coreVars, botVars, tasks, retry>>

\* time passes between two calls
Tick ==
    /\ now < MaxTime + MaxTTL
    /\ now' = now + 1
    /\ UNCHANGED <<coreVars, storeVars, fsm, sent, runVars>>

InitCriticalState ==
    /\ InitQuiet
    /\ InitExt

NextCriticalState == SaveOwnState \/ LoadCriticalState \/ DeleteCriticalState \/ Tick

SpecCriticalState == InitCriticalState /\ [][NextCriticalState]_vars

\* what holds after each completed call: one row per user at most; after a
\* save the user's row holds the data saved; after a delete, and after a load
\* that found nothing or an expired state, the user has no row
StoreKept ==
    /\ \A u \in Users : Cardinality(StateRows(user_states, u)) <= 1
    /\ (ret.op = "save_critical_state" /\ ret.result) =>
          \E i \in StateRows(user_states, ret.user_id) :
              json_loads(user_states[i].state_data) = ret.data
    /\ (ret.op = "delete_critical_state" /\ ret.result) =>
          StateRows(user_states, ret.user_id) = {}
    /\ (ret.op = "load_critical_state" /\ ret.outcome \in {"none", "expired"}) =>
          /\ ret.result = NoState
          /\ StateRows(user_states, ret.user_id) = {}

\* a load that follows a save of the same user before the expiry returns the
\* data saved; after the expiry it returns None; a load that follows a
\* delete of the same user returns None
LoadAfter ==
    (ret'.op = "load_critical_state" /\ ret'.outcome # "failed") =>
        /\ (ret.op = "save_critical_state" /\ ret.result
               /\ ret.user_id = ret'.user_id) =>
              \A i \in StateRows(user_states, ret.user_id) :
                  IF user_states[i].expires_at < now
                  THEN ret'.result = NoState /\ ret'.outcome = "expired"
                  ELSE ret'.result = ret.data
        /\ (ret.op = "delete_critical_state" /\ ret.result
               /\ ret.user_id = ret'.user_id) => ret'.result = NoState

MaxSent == 3

\* the Match rows: match m is between users m and m + 1
match_users(m) == {m, m + 1}

\* get_match_between_users: the match of the two users in either order, 0
\* for None
get_match_between_users(user1_id, user2_id) ==
    IF user1_id # user2_id /\ \E m \in MatchIds : match_users(m) = {user1_id, user2_id}
    THEN CHOOSE m \in MatchIds : match_users(m) = {user1_id, user2_id}
    ELSE 0

\* get_chat_session_by_match as user_management defines it: the import from
\* .repositories fails, the placeholder logs an error and returns None (0)
get_chat_session_by_match(match_id) == 0

\* chat_session_repo.update_status(session, id, status, set_ended=True)
update_status(rows, id, status) == [rows EXCEPT ![id].status = status]

\* ChatMessageRepository.delete_messages_for_chat(session, chat_id)
delete_messages_for_chat(rows, chat_id) == SelectSeq(rows, LAMBDA m : m.chat_id # chat_id)

\* what both handlers do with the data "<action>:<partner_id>" of a callback
\* of account tg; block is TRUE for on_confirm_block, which blocks the
\* partner first and ends the chat session only "if match", FALSE for
\* on_confirm_delete, which returns when there is no match and notifies the
\* partner at the end; show_main_menu clears the state and sends the menu
DoConfirm(block) ==
    \E tg \in TelegramUsers, partner_id \in TelegramUsers, notify_ok \in BOOLEAN :
        LET user == get_by_telegram_user_id(tg)
            partner == IF partner_id \in Users THEN partner_id ELSE 0
            match == get_match_between_users(user, partner_id)
            chat_session == IF match # 0 THEN get_chat_session_by_match(match) ELSE 0
            answer(text) == [to |-> tg, kind |-> "answer", text |-> text,
                             about |-> partner_id]
            outcome == IF user = 0 THEN "not_registered"
                       ELSE IF partner = 0 THEN "no_partner"
                       ELSE IF ~block /\ match = 0 THEN "no_match"
                       ELSE "confirmed"
        IN /\ Cardinality(sent) < MaxSent
           /\ blocked' = IF block /\ outcome = "confirmed"
                         THEN blocked \cup {<<user, partner_id>>}
                         ELSE blocked
           /\ chat_sessions' = IF outcome = "confirmed" /\ chat_session # 0
                               THEN update_status(chat_sessions, chat_session, "ended")
                               ELSE chat_sessions
           /\ chat_messages' = IF outcome = "confirmed" /\ chat_session # 0
                               THEN delete_messages_for_chat(chat_messages, chat_session)
                               ELSE chat_messages
           /\ fsm' = IF outcome = "confirmed" THEN [fsm EXCEPT ![tg] = NoFsm] ELSE fsm
           /\ sent' = sent \cup
                (CASE outcome = "not_registered" ->
                        {answer("You need to register in the main bot first.")}
                   [] outcome = "no_partner" -> {answer("Partner not found.")}
                   [] outcome = "no_match" -> {answer("No match found with this user.")}
                   [] OTHER ->
                        {[to |-> tg, kind |-> IF block THEN "blocked" ELSE "deleted",
                          text |-> IF block THEN "has been blocked."
                                   ELSE "Chat history has been cleared.",
                          about |-> partner_id],
                         [to |-> tg, kind |-> "main_menu", text |-> "menu", about |-> 0]}
                        \cup
                        (IF ~block /\ notify_ok
                         THEN {[to |-> partner_id, kind |-> "notification",
                                text |-> "has ended your match.", about |-> user]}
                         ELSE {}))
           /\ ret' = [op |-> IF block THEN "on_confirm_block" ELSE "on_confirm_delete",
                      sender |-> tg, partner_id |-> partner_id, outcome |-> outcome]
           /\ UNCHANGED <<answers, answer_rows, saved, q_active, is_active, member>>
           /\ UNCHANGED <<sessVars, callVars, analysisVars>>
           /\ UNCHANGED <<q_group, chats, points, user_states, now, tasks, retry>>

OnConfirmDelete == DoConfirm(FALSE)

OnConfirmBlock == DoConfirm(TRUE)

\* the first two users are matched and have an active chat session, with
\* or without a message in it
InitManage ==
    /\ InitQuiet
    /\ OneGroup
    /\ chat_sessions = <<[new_chat_session(<<>>, 1, 2, 1) EXCEPT !.status = "active"]>>
    /\ chats = <<>>
    /\ chat_messages \in {<<>>, <<[chat_id |-> 1, sender_id |-> 1,
                                  content_type |-> "text", text_content |-> "text"]>>}
    /\ fsm = [tg \in TelegramUsers |-> NoFsm]
    /\ sent = {}
    /\ NoAccounts
    /\ NoRuns

NextManage == OnConfirmDelete \/ OnConfirmBlock

SpecManage == InitManage /\ [][NextManage]_vars

\* C30: once a user has been told that the chat history with a partner was
\* cleared, or that the partner was blocked, every chat session of their
\* match has status "ended" and none of its chat messages is left
C30_ChatCleared ==
    \A m \in sent :
        m.kind \in {"deleted", "blocked"} =>
            \A i \in 1..Len(chat_sessions) :
                chat_sessions[i].match_id = get_match_between_users(m.to, m.about) =>
                    /\ chat_sessions[i].status = "ended"
                    /\ \A k \in 1..Len(chat_messages) : chat_messages[k].chat_id # i

====
